---- MODULE Spec2Model ----
(***************************************************************************)
(* Model lifecycle and retrain decision control plane of the COD fraud     *)
(* ML service: the retrain scheduler's decision function, the versioned    *)
(* artifact store with its single active artifact, prediction serving on   *)
(* the service's event loop, and the retrain paths of the service and of   *)
(* the drift-check script, which share the versions directory and the      *)
(* scheduler state file.                                                   *)
(***************************************************************************)
EXTENDS Integers, Sequences, FiniteSets, TLC

(***************************************************************************)
(* Bounds of the model.                                                    *)
(***************************************************************************)
\* Days on the time line: 0..MaxDay.
MaxDay == 7
\* Distinguishable instants within one day of the time line: 0..MaxSlot.
MaxSlot == 1
\* Instants of a day at which the running system reads the clock: 0..MaxSec.
MaxSec == 0
\* new_orders inputs are taken around the multiples 0..MaxOrderMult of
\* min_new_orders.
MaxOrderMult == 6
\* Training runs (each produces one new model) over a behaviour.
MaxTrain == 2
\* Values of the primary metric auc_roc: 0..MaxAuc.
MaxAuc == 1
\* Metric values of the sidecars compared: 0..MaxMetric steps.
MaxMetric == 3
\* Calls of compare_models in a row.
MaxCalls == 2
\* Probabilities and thresholds are the multiples of 1 / (2 * HalfSteps).
HalfSteps == 5

(***************************************************************************)
(* Program constants.                                                      *)
(***************************************************************************)
\* RetrainScheduler.__init__ defaults; every caller constructs
\* RetrainScheduler() with them.
retrain_interval_days == 7
min_new_orders == 200

(***************************************************************************)
(* Time.  An instant is day * SecsPerDay + sec; a version string           *)
(* "v%Y%m%d_%H%M%S" and an ISO timestamp are both determined by the        *)
(* instant, and the lexicographic order of version strings is the order of *)
(* instants.                                                               *)
(***************************************************************************)
SecsPerDay == MaxSlot + 1
Instants == 0 .. (MaxDay * SecsPerDay + MaxSlot)
Instant(day, sec) == day * SecsPerDay + sec

\* (datetime.now(timezone.utc) - last_dt).days : timedelta normalises to
\* whole days rounded toward minus infinity.
DaysBetween(later, earlier) ==
    LET d == later - earlier
    IN  IF d >= 0 THEN d \div SecsPerDay
        ELSE -(((-d) + SecsPerDay - 1) \div SecsPerDay)

(***************************************************************************)
(* RetrainScheduler.should_retrain                                         *)
(***************************************************************************)
Null == "null"

\* A reason string, by the format that produced it and the numbers in it.
Reason(kind, days, orders, text) ==
    [kind |-> kind, days |-> days, orders |-> orders, text |-> text]
DriftText(text) == Reason("drift_text", 0, 0, text)
DefaultDriftReason == Reason("drift_default", 0, 0, "Drift detected")
ScheduledReason(days, orders) == Reason("scheduled", days, orders, "")
ShortfallReason(days, orders) == Reason("shortfall", days, orders, "")
VolumeReason(orders) == Reason("volume", 0, orders, "")
NoTriggerReason == Reason("none", 0, 0, "No retrain triggers fired")

\* An Optional[List[str]] argument.
NoneList == [isNone |-> TRUE, items |-> <<>>]
SomeList(items) == [isNone |-> FALSE, items |-> items]

\* An Optional[str] timestamp argument: None, "", a string fromisoformat
\* rejects (ValueError), a timestamp without UTC offset (TypeError on the
\* subtraction from an aware now), or an aware timestamp.
NoneTime == [kind |-> "none", t |-> 0]
EmptyTime == [kind |-> "empty", t |-> 0]
InvalidTime == [kind |-> "invalid", t |-> 0]
NaiveTime(t) == [kind |-> "naive", t |-> t]
AwareTime(t) == [kind |-> "aware", t |-> t]

\* Python truthiness of Optional[str].
Truthy(ts) == ts.kind \notin {"none", "empty"}

\* drift_reasons or ["Drift detected"]
DriftReasonsOrDefault(drift_reasons) ==
    IF drift_reasons.isNone \/ drift_reasons.items = <<>>
    THEN <<DefaultDriftReason>>
    ELSE drift_reasons.items

\* Step 1: the drift trigger.
DriftStep(drift_should_retrain, drift_reasons) ==
    IF drift_should_retrain
    THEN [trigger |-> "drift", reasons |-> DriftReasonsOrDefault(drift_reasons)]
    ELSE [trigger |-> Null, reasons |-> <<>>]

\* not trigger
TriggerUnset_Ignored(acc) == TRUE
TriggerUnset(acc) == acc.trigger = Null

\* Step 2: the scheduled trigger; the try block leaves the accumulator
\* untouched on ValueError / TypeError.
ScheduledStep_NoOrderCheck(acc, new_orders, last_trained_at, now_t) ==
    IF Truthy(last_trained_at) /\ TriggerUnset(acc) /\ last_trained_at.kind = "aware"
    THEN LET days_since == DaysBetween(now_t, last_trained_at.t)
         IN  IF days_since >= retrain_interval_days
             THEN [trigger |-> "scheduled",
                   reasons |-> Append(acc.reasons,
                                      ScheduledReason(days_since, new_orders))]
             ELSE acc
    ELSE acc
ScheduledStep_SilentShortfall(acc, new_orders, last_trained_at, now_t) ==
    IF Truthy(last_trained_at) /\ TriggerUnset(acc) /\ last_trained_at.kind = "aware"
    THEN LET days_since == DaysBetween(now_t, last_trained_at.t)
         IN  IF days_since >= retrain_interval_days /\ new_orders >= min_new_orders
             THEN [trigger |-> "scheduled",
                   reasons |-> Append(acc.reasons,
                                      ScheduledReason(days_since, new_orders))]
             ELSE acc
    ELSE acc
ScheduledStep(acc, new_orders, last_trained_at, now_t) ==
    IF Truthy(last_trained_at) /\ TriggerUnset(acc)
    THEN IF last_trained_at.kind = "aware"
         THEN LET days_since == DaysBetween(now_t, last_trained_at.t)
              IN  IF days_since >= retrain_interval_days
                  THEN IF new_orders >= min_new_orders
                       THEN [trigger |-> "scheduled",
                             reasons |-> Append(acc.reasons,
                                         ScheduledReason(days_since, new_orders))]
                       ELSE [trigger |-> acc.trigger,
                             reasons |-> Append(acc.reasons,
                                         ShortfallReason(days_since, new_orders))]
                  ELSE acc
         ELSE acc
    ELSE acc

\* Step 3: the volume trigger.
VolumeStep_Strict(acc, new_orders) ==
    IF TriggerUnset(acc) /\ new_orders > min_new_orders * 5
    THEN [trigger |-> "volume",
          reasons |-> Append(acc.reasons, VolumeReason(new_orders))]
    ELSE acc
VolumeStep(acc, new_orders) ==
    IF TriggerUnset(acc) /\ new_orders >= min_new_orders * 5
    THEN [trigger |-> "volume",
          reasons |-> Append(acc.reasons, VolumeReason(new_orders))]
    ELSE acc

should_retrain_NoDefault(drift_should_retrain, drift_reasons, new_orders_since_last_train, last_trained_at, now_t) ==
    LET a1 == DriftStep(drift_should_retrain, drift_reasons)
        a2 == ScheduledStep(a1, new_orders_since_last_train, last_trained_at, now_t)
        a3 == VolumeStep(a2, new_orders_since_last_train)
    IN  [should_retrain |-> a3.trigger # Null,
         trigger |-> a3.trigger,
         reasons |-> a3.reasons,
         new_orders |-> new_orders_since_last_train]
should_retrain(drift_should_retrain, drift_reasons, new_orders_since_last_train, last_trained_at, now_t) ==
    LET a1 == DriftStep(drift_should_retrain, drift_reasons)
        a2 == ScheduledStep(a1, new_orders_since_last_train, last_trained_at, now_t)
        a3 == VolumeStep(a2, new_orders_since_last_train)
        reasons == IF a3.reasons = <<>> THEN <<NoTriggerReason>> ELSE a3.reasons
    IN  [should_retrain |-> a3.trigger # Null,
         trigger |-> a3.trigger,
         reasons |-> reasons,
         new_orders |-> new_orders_since_last_train]

(***************************************************************************)
(* State.                                                                  *)
(***************************************************************************)
VARIABLES
    now,         \* the UTC clock, an instant
    binaries,    \* versions/model_<v>.joblib : version -> model
    metas,       \* versions/model_<v>_meta.json : version -> sidecar
    schedState,  \* data/scheduler_state.json : <<>> when absent, else <<state>>
    active,      \* app.model_manager._active : <<>> (None) or <<artifact>>
    shap,        \* predict._shap_explainer / _shap_model_version
    srv,         \* the handler the service's event loop is running
    req,         \* the client's predict request: <<>> or <<pending request>>
    resp,        \* the last prediction response, with what it was served from
    scr,         \* the run_drift_check process: position, its own manager
    trained,     \* number of training runs that produced a model
    hist,        \* history: last retrain run of each process, state-file writes
    din,         \* should_retrain inputs under study
    dout         \* <<>> or <<decision>>

varsL == <<now, binaries, metas, schedState, active, shap, srv, req, resp, scr,
           trained, hist>>
varsD == <<din, dout>>
vars == <<varsL, varsD>>

None == <<>>
Some(x) == <<x>>
IsNone(o) == o = <<>>
The(o) == o[1]

Procs == {"srv", "scr"}
AucVals == 0 .. MaxAuc

(***************************************************************************)
(* ModelManager                                                            *)
(***************************************************************************)
\* A version string: "v" + the UTC time to the second is the instant itself
\* (the order of the strings is the order of the instants); a negative number
\* is a name that does not begin with "v", such as "1.0.0", which sorts
\* before every "v" name.
OtherName == -1
VPrefixed(version) == version >= 0

\* glob("model_v*.joblib") over the files _model_path names.
Globbed(bins) == { version \in DOMAIN bins : VPrefixed(version) }

Max(S) == CHOOSE x \in S : \A y \in S : y <= x

\* versions.sort(reverse=True)
RECURSIVE SortedReverse(_)
SortedReverse(S) ==
    IF S = {} THEN <<>> ELSE <<Max(S)>> \o SortedReverse(S \ {Max(S)})

list_versions(bins) == SortedReverse(Globbed(bins))

\* versions[0] if versions else None
get_latest_version(bins) ==
    LET versions == list_versions(bins)
    IN  IF versions = <<>> THEN None ELSE Some(versions[1])

\* A dict without keys (also what "extra_metadata or nothing" updates with).
EmptyDict == <<>>

\* The meta dict save_model dumps into the sidecar: the core keys, then
\* meta.update(extra_metadata).  For the declared argument types (List[str],
\* Dict[str, float], int) json.dump followed by json.load gives equal values.
\* The "feature_count" key, len(feature_names), is read by no load path and
\* is left out.
save_model_meta(version, feature_names, metrics, training_samples, extra_metadata, t) ==
    extra_metadata @@
    [version |-> version, feature_names |-> feature_names, metrics |-> metrics,
     trained_at |-> AwareTime(t), training_samples |-> training_samples]

\* The sidecar the training paths write for a model: its feature names, its
\* primary metric, its sample count.
Sidecar(version, model, auc, t) ==
    save_model_meta(version, model, [auc_roc |-> auc], model, EmptyDict, t)

\* The ModelArtifact load_model builds for a version whose binary exists;
\* a missing sidecar leaves the defaults (no feature names, no metrics, "").
NoFeatures == -1
ModelArtifact(version, bins, mts) ==
    IF version \in DOMAIN mts
    THEN [model |-> bins[version], version |-> version,
          feature_names |-> mts[version].feature_names,
          metrics |-> mts[version].metrics,
          training_samples |-> mts[version].training_samples,
          trained_at |-> mts[version].trained_at]
    ELSE [model |-> bins[version], version |-> version,
          feature_names |-> NoFeatures, metrics |-> EmptyDict,
          training_samples |-> 0,
          trained_at |-> EmptyTime]

\* load_model(version): the version to load (None: the latest), or None when
\* it raises FileNotFoundError.
ResolveVersion(version, bins) ==
    LET v == IF IsNone(version) THEN get_latest_version(bins) ELSE version
    IN  IF IsNone(v) \/ The(v) \notin DOMAIN bins THEN None ELSE v

\* A file a write left truncated: joblib.load or json.load of it raises.
CorruptBinary == -1
CorruptSidecar == [corrupt |-> TRUE]

\* load_model(version): "ok", or the exception it raises.
load_outcome(version, bins, mts) ==
    LET v == ResolveVersion(version, bins)
    IN  IF IsNone(v) THEN "FileNotFoundError"
        ELSE IF bins[The(v)] = CorruptBinary THEN "UnpicklingError"
        ELSE IF The(v) \in DOMAIN mts /\ mts[The(v)] = CorruptSidecar THEN "JSONDecodeError"
        ELSE "ok"

\* load_model(version): the new value of _active; unchanged when it raises
\* (self._active is assigned last).
load_model_ActiveFirst(version, bins, mts, current) ==
    LET v == ResolveVersion(version, bins)
    IN  IF IsNone(v) THEN current
        ELSE IF load_outcome(version, bins, mts) = "ok"
        THEN Some(ModelArtifact(The(v), bins, mts))
        ELSE Some(ModelArtifact(The(v), bins, EmptyDict))
load_model(version, bins, mts, current) ==
    IF load_outcome(version, bins, mts) = "ok"
    THEN Some(ModelArtifact(The(ResolveVersion(version, bins)), bins, mts))
    ELSE current

\* Metric values are counted in units of 10^-7, in steps of 5 * 10^-7:
\* differences fall between, and halfway between, the 6-decimal values that
\* round(_, 6) returns.
MetricNames == {"auc_roc", "f1"}
MetricVals == { 5 * k : k \in 0 .. MaxMetric }
MetricMaps == UNION { [D -> MetricVals] : D \in SUBSET MetricNames }

\* metrics.get(metric, 0.0)
MetricGet(metrics, metric) == IF metric \in DOMAIN metrics THEN metrics[metric] ELSE 0

\* round(x, 6): to the nearest multiple of 10^-6, the same way for x and -x
\* (a value halfway goes to the even multiple).
Round6(x) ==
    LET a == IF x < 0 THEN -x ELSE x
        q == a \div 10
        r == a % 10
        m == IF r > 5 \/ (r = 5 /\ q % 2 = 1) THEN (q + 1) * 10 ELSE q * 10
    IN  IF x < 0 THEN -m ELSE m

\* "b" if val_b > val_a else ("a" if val_a > val_b else "tie")
BetterTag_TieToB(val_a, val_b) == IF val_b >= val_a THEN "b" ELSE "a"
BetterTag(val_a, val_b) ==
    IF val_b > val_a THEN "b" ELSE IF val_a > val_b THEN "a" ELSE "tie"

\* compare_models(version_a, version_b)["metrics"]; both sidecars exist.
MetricTable(version_a, version_b, mts) ==
    LET metrics_a == mts[version_a].metrics
        metrics_b == mts[version_b].metrics
    IN  [metric \in DOMAIN metrics_a \cup DOMAIN metrics_b |->
           LET val_a == MetricGet(metrics_a, metric)
               val_b == MetricGet(metrics_b, metric)
           IN  [version_a |-> val_a, version_b |-> val_b,
                diff |-> Round6(val_b - val_a),
                better |-> BetterTag(val_a, val_b)]]

\* compare_models(version_a, version_b, primary_metric)["winner"]; both
\* sidecars exist.
compare_models_Strict(version_a, version_b, primary_metric, mts) ==
    LET pa == MetricGet(mts[version_a].metrics, primary_metric)
        pb == MetricGet(mts[version_b].metrics, primary_metric)
    IN  IF pb > pa THEN version_b ELSE version_a
compare_models(version_a, version_b, primary_metric, mts) ==
    LET pa == MetricGet(mts[version_a].metrics, primary_metric)
        pb == MetricGet(mts[version_b].metrics, primary_metric)
    IN  IF pb >= pa THEN version_b ELSE version_a

\* save_model: the binary and the sidecar after the call.
SavedBinaries(bins, version, model) == (version :> model) @@ bins
SavedMetas(mts, version, model, auc, t) ==
    (version :> Sidecar(version, model, auc, t)) @@ mts

(***************************************************************************)
(* train.train_model_v2, from the end of training on: the version string   *)
(* is taken from the clock, the model is saved, and it is compared with    *)
(* the latest version found on disk before the save.                       *)
(***************************************************************************)
\* promoted, as train_model_v2 computes (and only logs) it: FALSE exactly
\* when a current version existed and compare_models names it the winner.
\* get_model_metadata raising on a missing sidecar is caught: promoted stays
\* TRUE.
Promoted(current_version, version, mts_after) ==
    IF IsNone(current_version) THEN TRUE
    ELSE IF The(current_version) \notin DOMAIN mts_after THEN TRUE
    ELSE compare_models(The(current_version), version, "auc_roc", mts_after) # The(current_version)

(***************************************************************************)
(* api.predict                                                             *)
(***************************************************************************)
NoShap == [explainer |-> None, version |-> None]

\* if _shap_explainer is None or _shap_model_version != artifact.version
NeedsExplainer(cache, artifact) ==
    IsNone(cache.explainer) \/ cache.version # Some(artifact.version)

\* The cache after _compute_shap_factors got as far as the explainer.
ShapAfter(cache, artifact) ==
    IF NeedsExplainer(cache, artifact)
    THEN [explainer |-> Some(artifact.model), version |-> Some(artifact.version)]
    ELSE cache

\* predict(artifact, features): what the result was computed from.  shap_ok
\* is FALSE when the shap import fails (no explanation, cache untouched).
predict_VersionFromCache(artifact, cache, shap_ok) ==
    [feature_names |-> artifact.feature_names,
     model |-> artifact.model,
     model_version |-> IF IsNone(cache.version) THEN artifact.version ELSE The(cache.version),
     explainer |-> IF shap_ok THEN ShapAfter(cache, artifact).explainer ELSE None]
predict(artifact, cache, shap_ok) ==
    [feature_names |-> artifact.feature_names,
     model |-> artifact.model,
     model_version |-> artifact.version,
     explainer |-> IF shap_ok THEN ShapAfter(cache, artifact).explainer ELSE None]

\* predict_endpoint: artifact = model_manager.active_model
ServedArtifact == active

\* Probabilities and thresholds, counted in steps of 1 / ProbSteps.
ProbSteps == 2 * HalfSteps
Probabilities == 0 .. ProbSteps
DefaultThreshold == HalfSteps

RECURSIVE GCD(_, _)
GCD(m, n) == IF n = 0 THEN m ELSE GCD(n, m % n)

\* The quotient num / den of two step counts, in lowest terms.
Quotient(num, den) == [num |-> num \div GCD(num, den), den |-> den \div GCD(num, den)]

\* _calculate_confidence(probability, threshold)
calculate_confidence_HalfScale(probability, threshold) ==
    LET distance == IF probability >= threshold THEN probability - threshold
                    ELSE threshold - probability
    IN  Quotient(distance, HalfSteps)
calculate_confidence(probability, threshold) ==
    LET max_distance == IF threshold >= ProbSteps - threshold THEN threshold
                        ELSE ProbSteps - threshold
        distance == IF probability >= threshold THEN probability - threshold
                    ELSE threshold - probability
    IN  Quotient(distance, max_distance)

(***************************************************************************)
(* Initial state: one champion on disk, trained at instant 0 and loaded by *)
(* the service's lifespan hook at a later instant of day 0; the scheduler  *)
(* state file absent or holding a counter.                                 *)
(***************************************************************************)
SchedulerStates ==
    {None} \cup { Some([last_trained_at |-> AwareTime(0), last_version |-> 0, new_orders |-> n]) :
                  n \in {5 * min_new_orders} }

\* state.get("new_orders", 0)
StateNewOrders(st) == IF IsNone(st) THEN 0 ELSE The(st).new_orders

NoRun == [done |-> FALSE, kept |-> FALSE, champion_active |-> FALSE]
IdleSrv == [pc |-> "idle", stale |-> FALSE]
IdleScr == [pc |-> "off", active |-> None, stale |-> FALSE]

QuietD == /\ din = [drift |-> FALSE, reasons |-> NoneList, orders |-> 0,
                    last |-> NoneTime, now |-> 0]
          /\ dout = None

\* The instants at which the running system reads the clock: the last
\* MaxSec + 1 instants of day 0 and of day MaxDay.  Two reads at one instant
\* give the same second.
ClockInstants == { Instant(d, MaxSlot - s) : d \in {0, MaxDay}, s \in 0 .. MaxSec }

InitL ==
    /\ now = Instant(0, MaxSlot - MaxSec)
    /\ \E a \in AucVals :
          /\ binaries = (0 :> 0)
          /\ metas = (0 :> Sidecar(0, 0, a, 0))
          /\ active = load_model(None, (0 :> 0), (0 :> Sidecar(0, 0, a, 0)), None)
    /\ schedState \in SchedulerStates
    /\ shap = NoShap
    /\ srv = IdleSrv
    /\ req = None
    /\ resp = None
    /\ scr = IdleScr
    /\ trained = 0
    /\ hist = [last |-> [p \in Procs |-> NoRun], lost |-> FALSE]

Init == InitL /\ QuietD

\* Time passes.
Tick ==
    /\ \E t \in ClockInstants : t > now /\ now' = t
    /\ UNCHANGED <<binaries, metas, schedState, active, shap, srv, req, resp, scr,
                   trained, hist, varsD>>

(***************************************************************************)
(* The service (app.py).  Every endpoint is an async def whose body never  *)
(* awaits: the event loop runs one handler at a time, to completion.       *)
(* LoopFree is the loop being able to start a handler.                     *)
(***************************************************************************)
LoopFree == srv.pc = "idle"

\* Training runs that have started and not ended.
InTraining(p) == IF p = "srv" THEN srv.pc \in {"train", "retrain"} ELSE scr.pc = "retrain"
InFlight == Cardinality({p \in Procs : InTraining(p)})
MayTrain == trained + InFlight < MaxTrain

\* A client sends POST /predict.  The pending request remembers the artifact
\* that was active when it arrived and whether the service was training.
ReqArrive ==
    /\ req = None
    /\ req' = Some([seen |-> active, during |-> InTraining("srv")])
    /\ UNCHANGED <<now, binaries, metas, schedState, active, shap, srv, resp, scr,
                   trained, hist, varsD>>

\* predict_endpoint: 503 without a model, else predict(artifact, features).
Predict ==
    /\ req # None
    /\ LoopFree
    /\ req' = None
    /\ IF IsNone(ServedArtifact)
       THEN /\ resp' = None
            /\ shap' = shap
       ELSE \E shap_ok \in BOOLEAN :
               /\ resp' = Some([result |-> predict(The(ServedArtifact), shap, shap_ok),
                                active_then |-> active,
                                swapped |-> The(req).seen # active,
                                during |-> The(req).during])
               /\ shap' = IF shap_ok THEN ShapAfter(shap, The(ServedArtifact)) ELSE shap
    /\ UNCHANGED <<now, binaries, metas, schedState, active, srv, scr,
                   trained, hist, varsD>>

\* reload_model(version): load_model, 404 on FileNotFoundError.
Reload ==
    /\ LoopFree
    /\ \E version \in {None} \cup {Some(v) : v \in DOMAIN binaries \cup {now}} :
          active' = load_model(version, binaries, metas, active)
    /\ UNCHANGED <<now, binaries, metas, schedState, shap, srv, req, resp, scr,
                   trained, hist, varsD>>

\* train_endpoint up to the call of train_model.
TrainBegin ==
    /\ LoopFree
    /\ MayTrain
    /\ srv' = [srv EXCEPT !.pc = "train"]
    /\ UNCHANGED <<now, binaries, metas, schedState, active, shap, req, resp, scr,
                   trained, hist, varsD>>

\* train_endpoint from the return of train_model: save_trained_model, then
\* model_manager.load_model(version).
TrainFinish ==
    /\ srv.pc = "train"
    /\ \E auc \in AucVals :
          LET version == now
              model == trained + 1
              bins == SavedBinaries(binaries, version, model)
              mts == SavedMetas(metas, version, model, auc, now)
          IN  /\ binaries' = bins
              /\ metas' = mts
              /\ active' = load_model(Some(version), bins, mts, active)
    /\ trained' = trained + 1
    /\ srv' = IdleSrv
    /\ UNCHANGED <<now, schedState, shap, req, resp, scr, hist, varsD>>

\* train_endpoint: loading the data or train_model raises; an HTTP error.
TrainFail ==
    /\ srv.pc = "train"
    /\ srv' = IdleSrv
    /\ UNCHANGED <<now, binaries, metas, schedState, active, shap, req, resp, scr,
                   trained, hist, varsD>>

\* The scheduler state save_state writes after a retrain.
StateAfterRetrain_KeepsCount(version) ==
    Some([last_trained_at |-> AwareTime(now), last_version |-> version,
          new_orders |-> StateNewOrders(schedState)])
StateAfterRetrain(version) ==
    Some([last_trained_at |-> AwareTime(now), last_version |-> version, new_orders |-> 0])

\* check_retrain up to the call of train_model_v2 (or to its return, when
\* nothing is trained).
CheckRetrain ==
    /\ LoopFree
    /\ ~IsNone(active)
    /\ \E trigger_retrain \in BOOLEAN, csv_exists \in BOOLEAN :
          LET artifact == The(active)
              decision == should_retrain(FALSE, NoneList, StateNewOrders(schedState),
                                         artifact.trained_at, now)
          IN  IF trigger_retrain /\ decision.should_retrain /\ csv_exists /\ MayTrain
              THEN srv' = [pc |-> "retrain", stale |-> FALSE]
              ELSE srv' = srv
    /\ UNCHANGED <<now, binaries, metas, schedState, active, shap, req, resp, scr,
                   trained, hist, varsD>>

\* The history entry of a finished retrain run: whether compare_models
\* declared the current version the winner, and whether the artifact active
\* before the run is the one active after it.
RunRecord(promoted, before, after) ==
    [done |-> TRUE, kept |-> ~promoted, champion_active |-> after = before]

\* check_retrain from the end of training: train_model_v2 saves and compares,
\* then model_manager.load_model(version) and scheduler.save_state.
RetrainFinish ==
    /\ srv.pc = "retrain"
    /\ \E auc \in AucVals :
          LET version == now
              model == trained + 1
              current_version == get_latest_version(binaries)
              bins == SavedBinaries(binaries, version, model)
              mts == SavedMetas(metas, version, model, auc, now)
              promoted == Promoted(current_version, version, mts)
              loaded == load_model(Some(version), bins, mts, active)
          IN  /\ binaries' = bins
              /\ metas' = mts
              /\ active' = loaded
              /\ schedState' = StateAfterRetrain(version)
              /\ hist' = [last |-> [hist.last EXCEPT !["srv"] = RunRecord(promoted, active, loaded)],
                          lost |-> hist.lost \/ srv.stale]
    /\ trained' = trained + 1
    /\ srv' = IdleSrv
    /\ scr' = [scr EXCEPT !.stale = (scr.pc = "retrain")]
    /\ UNCHANGED <<now, shap, req, resp, varsD>>

\* check_retrain: train_model_v2 raises; the error handler answers 500.
RetrainFail ==
    /\ srv.pc = "retrain"
    /\ srv' = IdleSrv
    /\ UNCHANGED <<now, binaries, metas, schedState, active, shap, req, resp, scr,
                   trained, hist, varsD>>

(***************************************************************************)
(* scripts/run_drift_check.py: a process of its own, with its own          *)
(* ModelManager, on the same versions directory and state file.            *)
(***************************************************************************)
\* main from manager.load_model() (the process exits when there is no
\* model) over the drift check to the decision; the drift verdict depends on
\* the data (three or more drifted features).
ScriptCheck ==
    /\ scr.pc = "off"
    /\ \E retrain \in BOOLEAN, drift \in BOOLEAN, csv_exists \in BOOLEAN :
          LET loaded == load_model(None, binaries, metas, None)
              artifact == The(loaded)
              reasons == IF drift THEN <<DriftText("features have drifted")>> ELSE <<>>
              decision == should_retrain(drift /\ csv_exists, SomeList(reasons),
                                         StateNewOrders(schedState), artifact.trained_at, now)
          IN  IF ~IsNone(loaded) /\ retrain /\ decision.should_retrain /\ csv_exists /\ MayTrain
              THEN scr' = [pc |-> "retrain", active |-> loaded, stale |-> FALSE]
              ELSE scr' = IdleScr
    /\ UNCHANGED <<now, binaries, metas, schedState, active, shap, srv, req, resp,
                   trained, hist, varsD>>

\* main from the end of training: train_model_v2, manager.load_model(version),
\* scheduler.save_state; the process ends.
ScriptRetrainFinish ==
    /\ scr.pc = "retrain"
    /\ \E auc \in AucVals :
          LET version == now
              model == trained + 1
              current_version == get_latest_version(binaries)
              bins == SavedBinaries(binaries, version, model)
              mts == SavedMetas(metas, version, model, auc, now)
              promoted == Promoted(current_version, version, mts)
              loaded == load_model(Some(version), bins, mts, scr.active)
          IN  /\ binaries' = bins
              /\ metas' = mts
              /\ schedState' = StateAfterRetrain(version)
              /\ hist' = [last |-> [hist.last EXCEPT !["scr"] = RunRecord(promoted, scr.active, loaded)],
                          lost |-> hist.lost \/ scr.stale]
    /\ trained' = trained + 1
    /\ scr' = IdleScr
    /\ srv' = [srv EXCEPT !.stale = (srv.pc = "retrain")]
    /\ UNCHANGED <<now, active, shap, req, resp, varsD>>

\* main: train_model_v2 raises; the process dies with the traceback.
ScriptRetrainFail ==
    /\ scr.pc = "retrain"
    /\ scr' = IdleScr
    /\ UNCHANGED <<now, binaries, metas, schedState, active, shap, srv, req, resp,
                   trained, hist, varsD>>

Next ==
    \/ Tick
    \/ ReqArrive
    \/ Predict
    \/ Reload
    \/ TrainBegin
    \/ TrainFinish
    \/ TrainFail
    \/ CheckRetrain
    \/ RetrainFinish
    \/ RetrainFail
    \/ ScriptCheck
    \/ ScriptRetrainFinish
    \/ ScriptRetrainFail

Spec == Init /\ [][Next]_vars

\* The service on its own, the drift-check script never run.
NextServe ==
    \/ Tick
    \/ ReqArrive
    \/ Predict
    \/ Reload
    \/ TrainBegin
    \/ TrainFinish
    \/ TrainFail
    \/ CheckRetrain
    \/ RetrainFinish
    \/ RetrainFail

SpecServe == Init /\ [][NextServe]_vars

(***************************************************************************)
(* The decision function on its own: the inputs are drawn in the initial   *)
(* state and Decide applies should_retrain to them.                        *)
(***************************************************************************)
NewOrderInputs ==
    { n \in { k * min_new_orders + j : k \in 0 .. MaxOrderMult, j \in {-1, 0, 1} } : n >= 0 }
    \cup {150}

ReasonInputs ==
    { NoneList, SomeList(<<>>), SomeList(<<DriftText("r1")>>),
      SomeList(<<DriftText("r1"), DriftText("r2")>>) }

TimeInputs ==
    {NoneTime, EmptyTime, InvalidTime}
    \cup { NaiveTime(t) : t \in Instants } \cup { AwareTime(t) : t \in Instants }

QuietL == InitL /\ schedState = None /\ The(active).metrics.auc_roc = 0

InitD ==
    /\ QuietL
    /\ din \in [drift : BOOLEAN, reasons : ReasonInputs, orders : NewOrderInputs,
                last : TimeInputs, now : Instants]
    /\ dout = None

Decide ==
    /\ dout = None
    /\ dout' = Some(should_retrain(din.drift, din.reasons, din.orders, din.last, din.now))
    /\ UNCHANGED <<din, varsL>>

NextD == Decide

SpecDecide == InitD /\ [][NextD]_vars

\* The inputs and the decision of a decided state.
Decided == ~IsNone(dout)
decision == The(dout)
IntervalElapsed ==
    din.last.kind = "aware" /\ DaysBetween(din.now, din.last.t) >= retrain_interval_days

(***************************************************************************)
(* Claims about should_retrain.                                            *)
(***************************************************************************)
\* C7: whenever drift_should_retrain is true the decision has trigger
\* "drift", should_retrain true, and exactly the reasons of the drift
\* trigger: the drift reasons passed in, or, when none were passed (None or
\* an empty list), the single stand-in "Drift detected".  No scheduled,
\* shortfall or volume reason is appended, whether or not the interval has
\* elapsed and however many new orders there are.
C7_DriftShortCircuits ==
    (Decided /\ din.drift) =>
        /\ decision.trigger = "drift"
        /\ decision.should_retrain
        /\ decision.reasons =
             IF din.reasons.isNone \/ Len(din.reasons.items) = 0
             THEN <<Reason("drift_default", 0, 0, "Drift detected")>>
             ELSE din.reasons.items

\* C7 witness: drift fired while the interval had elapsed with five times the
\* minimum of new orders, so both lower triggers would fire on their own.
C7_Witness ==
    /\ Decided /\ din.drift
    /\ IntervalElapsed
    /\ din.orders >= 5 * min_new_orders
    /\ Len(din.reasons.items) = 2

\* C8 as stated: without drift and with new orders >= 5 x min_new_orders the
\* trigger is "volume" whatever last_trained_at is.
C8_VolumeWhateverLastTrained ==
    (Decided /\ ~din.drift /\ din.orders >= 5 * min_new_orders) =>
        /\ decision.trigger = "volume"
        /\ decision.should_retrain

\* C8 amended: without drift and with new orders >= 5 x min_new_orders,
\* should_retrain is true whatever last_trained_at is; the trigger is
\* "scheduled" when last_trained_at is a timestamp at least
\* retrain_interval_days whole days old, and "volume" in every other case.
C8_VolumeOrScheduled ==
    (Decided /\ ~din.drift /\ din.orders >= 5 * min_new_orders) =>
        /\ decision.should_retrain
        /\ decision.trigger = IF IntervalElapsed THEN "scheduled" ELSE "volume"

\* C8 witness: the volume trigger fired with a last_trained_at younger than
\* the interval.
C8_Witness ==
    /\ Decided /\ ~din.drift
    /\ din.orders = 5 * min_new_orders
    /\ din.last.kind = "aware" /\ ~IntervalElapsed
    /\ decision.trigger = "volume"

\* C9: the trigger is "scheduled" exactly when no drift was reported,
\* last_trained_at is known (a timestamp with its UTC offset, as every writer
\* of trained_at produces it, from which the elapsed days can be taken), at
\* least retrain_interval_days whole days have elapsed since it, and new
\* orders >= min_new_orders.
C9_ScheduledExactlyWhen ==
    Decided =>
        ( decision.trigger = "scheduled" <=>
            ( /\ ~din.drift
              /\ din.last.kind = "aware"
              /\ DaysBetween(din.now, din.last.t) >= retrain_interval_days
              /\ din.orders >= min_new_orders ) )

\* C9 witness: a scheduled decision taken exactly retrain_interval_days whole
\* days after a training that was not at the start of a day.
C9_Witness ==
    /\ Decided
    /\ decision.trigger = "scheduled"
    /\ din.orders = min_new_orders
    /\ din.last.t % SecsPerDay # 0
    /\ DaysBetween(din.now, din.last.t) = retrain_interval_days

\* C10: without drift, with the interval elapsed and new orders below
\* min_new_orders, no trigger fires and the reasons contain the shortfall
\* reason.
C10_ShortfallRecorded ==
    (Decided /\ ~din.drift /\ IntervalElapsed /\ din.orders < min_new_orders) =>
        /\ decision.trigger = Null
        /\ ~decision.should_retrain
        /\ \E i \in 1 .. Len(decision.reasons) :
              decision.reasons[i] =
                  Reason("shortfall", DaysBetween(din.now, din.last.t), din.orders, "")

\* C10 witness: the spec's scenario, 150 new orders after an elapsed interval.
C10_Witness ==
    /\ Decided /\ ~din.drift /\ IntervalElapsed
    /\ din.orders = 150
    /\ decision.trigger = Null

\* C11 as stated: whenever no trigger fired, the reasons are exactly the
\* one entry "No retrain triggers fired".
C11_OnlyNoTriggerReason ==
    (Decided /\ decision.trigger = Null) =>
        /\ ~decision.should_retrain
        /\ decision.reasons = <<Reason("none", 0, 0, "No retrain triggers fired")>>

\* C11 amended: whenever no trigger fired, should_retrain is false and the
\* reasons are exactly one entry: the shortfall reason when the retrain
\* interval has elapsed with fewer than min_new_orders new orders, and the
\* entry "No retrain triggers fired" in every other case.
C11_OneReasonWithoutTrigger ==
    (Decided /\ decision.trigger = Null) =>
        /\ ~decision.should_retrain
        /\ decision.reasons =
             IF IntervalElapsed /\ din.orders < min_new_orders
             THEN <<Reason("shortfall", DaysBetween(din.now, din.last.t), din.orders, "")>>
             ELSE <<Reason("none", 0, 0, "No retrain triggers fired")>>

\* C11 witness: no trigger fired although the order minimum was met, the
\* interval being one instant short of elapsed.
C11_Witness ==
    /\ Decided /\ decision.trigger = Null
    /\ din.orders >= min_new_orders
    /\ din.last.kind = "aware"
    /\ DaysBetween(din.now, din.last.t) = retrain_interval_days - 1
    /\ DaysBetween(din.now + 1, din.last.t) = retrain_interval_days
    /\ Len(decision.reasons) = 1

(***************************************************************************)
(* compare_models on its own: two stored versions whose sidecars hold any  *)
(* metrics maps, compared up to MaxCalls times in either order.            *)
(***************************************************************************)
\* The store with versions 0 and 1 saved with the given metrics.
CompareBinaries == (0 :> 0) @@ (1 :> 1)
CompareMetas(metrics_0, metrics_1) ==
    (0 :> save_model_meta(0, 0, metrics_0, 0, EmptyDict, 0)) @@
    (1 :> save_model_meta(1, 1, metrics_1, 1, EmptyDict, 0))

InitC ==
    /\ now = Instant(0, MaxSlot - MaxSec)
    /\ binaries = CompareBinaries
    /\ \E metrics_0 \in MetricMaps, metrics_1 \in MetricMaps :
          metas = CompareMetas(metrics_0, metrics_1)
    /\ active = load_model(None, binaries, metas, None)
    /\ schedState = None
    /\ shap = NoShap
    /\ srv = IdleSrv
    /\ req = None
    /\ resp = None
    /\ scr = IdleScr
    /\ trained = 0
    /\ hist = [last |-> [p \in Procs |-> NoRun], lost |-> FALSE]
    /\ \E primary_metric \in MetricNames :
          din = [primary_metric |-> primary_metric, binaries |-> binaries,
                 metas |-> metas, active |-> active]
    /\ dout = <<>>

\* A call compare_models(version_a, version_b, primary_metric): it reads the
\* two sidecars and returns the comparison.
Compare ==
    /\ Len(dout) < MaxCalls
    /\ \E version_a \in DOMAIN metas, version_b \in DOMAIN metas :
          dout' = Append(dout,
                     [version_a |-> version_a, version_b |-> version_b,
                      metrics |-> MetricTable(version_a, version_b, metas),
                      winner |-> compare_models(version_a, version_b,
                                                din.primary_metric, metas)])
    /\ UNCHANGED <<din, varsL>>

NextC == Compare

SpecCompare == InitC /\ [][NextC]_vars

\* The primary-metric value compare_models gives a stored version.
PrimaryOf(version) == MetricGet(metas[version].metrics, din.primary_metric)

\* C12: compare_models declares version_b the winner exactly when its
\* primary-metric value is >= version_a's, a metric absent from a sidecar
\* counting as 0; otherwise version_a is the winner.  A tie, that of both
\* sidecars lacking the metric included, goes to version_b.
C12_TieGoesToB ==
    \A i \in 1 .. Len(dout) :
        LET c == dout[i]
        IN  /\ c.winner \in {c.version_a, c.version_b}
            /\ (PrimaryOf(c.version_b) >= PrimaryOf(c.version_a)) => c.winner = c.version_b
            /\ (PrimaryOf(c.version_b) < PrimaryOf(c.version_a)) => c.winner = c.version_a

\* C12 witness: two different versions whose sidecars both lack the primary
\* metric were compared, and version_b won.
C12_Witness ==
    \E i \in 1 .. Len(dout) :
        /\ dout[i].version_a # dout[i].version_b
        /\ din.primary_metric \notin DOMAIN metas[dout[i].version_a].metrics
        /\ din.primary_metric \notin DOMAIN metas[dout[i].version_b].metrics
        /\ dout[i].winner = dout[i].version_b

\* The "better" tag with a and b exchanged.
Mirrored(tag) == IF tag = "a" THEN "b" ELSE IF tag = "b" THEN "a" ELSE "tie"

\* C13: compare_models is idempotent and its metric table symmetric: two
\* calls on the same versions return the same comparison, no call changes
\* the store or the active artifact, and a call with the versions exchanged
\* has the same metric names with, for each, the negated diff and the
\* mirrored "better" tag.
C13_IdempotentSymmetric ==
    /\ binaries = din.binaries /\ metas = din.metas /\ active = din.active
    /\ \A i \in 1 .. Len(dout), j \in 1 .. Len(dout) :
          LET c == dout[i]
              d == dout[j]
          IN  /\ (c.version_a = d.version_a /\ c.version_b = d.version_b) => c = d
              /\ (c.version_a = d.version_b /\ c.version_b = d.version_a) =>
                    /\ DOMAIN c.metrics = DOMAIN d.metrics
                    /\ \A metric \in DOMAIN c.metrics :
                          /\ d.metrics[metric].diff = -c.metrics[metric].diff
                          /\ d.metrics[metric].better = Mirrored(c.metrics[metric].better)

\* C13 witness: the same two versions were compared in both orders, one
\* metric tied, and the other, absent from one sidecar, differing by an
\* amount that round(_, 6) changes.
C13_Witness ==
    /\ Len(dout) = 2
    /\ dout[1].version_a = dout[2].version_b
    /\ dout[1].version_b = dout[2].version_a
    /\ dout[1].version_a # dout[1].version_b
    /\ DOMAIN dout[1].metrics = MetricNames
    /\ dout[1].metrics["auc_roc"].better = "tie"
    /\ "f1" \notin DOMAIN metas[dout[1].version_a].metrics
    /\ dout[1].metrics["f1"].diff # dout[1].metrics["f1"].version_b

\* round(x, 6) of a quotient, in units of 10^-6.
RoundMicro(q) == (2 * q.num * 1000000 + q.den) \div (2 * q.den)

\* predict, steps 3 and the result: the threshold is the artifact's
\* optimal_threshold attribute when it has one, else 0.5.
predict_confidence(artifact, rto_prob) ==
    LET threshold == IF "optimal_threshold" \in DOMAIN artifact
                     THEN artifact.optimal_threshold ELSE DefaultThreshold
    IN  [confidence |-> RoundMicro(calculate_confidence(rto_prob, threshold)),
         optimal_threshold |-> threshold,
         model_version |-> artifact.version]

(***************************************************************************)
(* The artifact store on its own: save_model calls that complete or stop   *)
(* part-way, load_model calls, and predictions from the loaded artifact,   *)
(* starting from an empty versions directory.                              *)
(***************************************************************************)
\* A stored threshold below one half (0.4 on the scale of tenths).
LowThreshold == (2 * ProbSteps) \div 5

\* extra_metadata arguments: none, a decision threshold, a "metrics" key.
ExtraInputs == {EmptyDict, [optimal_threshold |-> LowThreshold], [metrics |-> EmptyDict]}

\* Model probabilities: 0.0, the stored threshold (0.4), and 0.7.
ProbabilityInputs == {0, LowThreshold, (7 * ProbSteps) \div 10}

\* Version arguments: the string built from the clock, or another name.
VersionInputs == {now, OtherName}

InitS ==
    /\ now = Instant(0, MaxSlot - MaxSec)
    /\ binaries = EmptyDict
    /\ metas = EmptyDict
    /\ active = None
    /\ schedState = None
    /\ shap = NoShap
    /\ srv = IdleSrv
    /\ req = None
    /\ resp = None
    /\ scr = IdleScr
    /\ trained = 0
    /\ hist = [last |-> [p \in Procs |-> NoRun], lost |-> FALSE]
    /\ din = [saved |-> EmptyDict, sidecar |-> None]
    /\ dout = None

\* save_model(model, version, feature_names, metrics, training_samples,
\* extra_metadata) runs to its end.  din.saved keeps the arguments of the
\* last completed save of each version, din.sidecar the sidecar that the
\* last successful load_model read (None when the file was missing).  Every
\* run passes a one-entry metrics map.
StoreSave ==
    /\ trained < MaxTrain
    /\ \E version \in VersionInputs, extra_metadata \in ExtraInputs :
          LET model == trained + 1
              args == [feature_names |-> model, metrics |-> [auc_roc |-> MaxAuc],
                       training_samples |-> model, extra_metadata |-> extra_metadata]
          IN  /\ binaries' = SavedBinaries(binaries, version, model)
              /\ metas' = (version :> save_model_meta(version, args.feature_names, args.metrics,
                                                      args.training_samples, extra_metadata, now))
                           @@ metas
              /\ din' = [din EXCEPT !.saved = (version :> args) @@ din.saved]
              /\ dout' = Some([call |-> "save", version |-> version])
    /\ trained' = trained + 1
    /\ UNCHANGED <<now, schedState, active, shap, srv, req, resp, scr, hist>>

\* save_model stops part-way (a write raises, or the process is stopped):
\* during joblib.dump, between the two writes, or during json.dump.
StoreSaveTorn ==
    /\ trained < MaxTrain
    /\ \E version \in VersionInputs,
          left \in {"binary_truncated", "sidecar_unwritten", "sidecar_truncated"} :
          /\ binaries' = SavedBinaries(binaries, version,
                                       IF left = "binary_truncated" THEN CorruptBinary
                                       ELSE trained + 1)
          /\ metas' = IF left = "sidecar_truncated"
                       THEN (version :> CorruptSidecar) @@ metas
                       ELSE metas
          /\ din' = [din EXCEPT !.saved = [v \in DOMAIN din.saved \ {version} |-> din.saved[v]]]
          /\ dout' = Some([call |-> "save_stopped", version |-> version])
    /\ trained' = trained + 1
    /\ UNCHANGED <<now, schedState, active, shap, srv, req, resp, scr, hist>>

\* load_model(version), version None included.
StoreLoad ==
    /\ \E version \in {None} \cup { Some(v) : v \in DOMAIN binaries \cup VersionInputs } :
          /\ active' = load_model(version, binaries, metas, active)
          /\ dout' = Some([call |-> "load", version |-> version,
                           outcome |-> load_outcome(version, binaries, metas),
                           before |-> active])
          /\ din' = IF load_outcome(version, binaries, metas) = "ok"
                     THEN LET v == The(ResolveVersion(version, binaries))
                          IN  [din EXCEPT !.sidecar = IF v \in DOMAIN metas
                                                      THEN Some(metas[v]) ELSE None]
                     ELSE din
    /\ UNCHANGED <<now, binaries, metas, schedState, shap, srv, req, resp, scr,
                   trained, hist>>

\* predict(artifact, features) on the active artifact, the model giving one
\* of the probabilities.
StorePredict ==
    /\ ~IsNone(active)
    /\ \E rto_prob \in ProbabilityInputs :
          dout' = Some([call |-> "predict", probability |-> rto_prob,
                        result |-> predict_confidence(The(active), rto_prob)])
    /\ UNCHANGED <<din, varsL>>

NextS ==
    \/ Tick
    \/ StoreSave
    \/ StoreSaveTorn
    \/ StoreLoad
    \/ StorePredict

SpecStore == InitS /\ [][NextS]_vars

\* The last call made on the store was a load_model call.
Loaded == Decided /\ decision.call = "load"

\* The last call made on the store was a predict call.
Predicted == Decided /\ decision.call = "predict"

\* C14: list_versions returns every saved version, in descending order,
\* and load_model() with no argument activates the greatest saved version.
C14_EverySavedVersionListed ==
    LET versions == list_versions(binaries)
    IN  /\ \A v \in DOMAIN binaries : \E i \in 1 .. Len(versions) : versions[i] = v
        /\ \A i, j \in 1 .. Len(versions) : i < j => versions[i] > versions[j]
        /\ (Loaded /\ IsNone(decision.version) /\ decision.outcome = "ok") =>
               \A v \in DOMAIN binaries : v <= The(active).version

\* C15: save_model is all-or-nothing: a load_model call succeeds only on a
\* version whose last save_model call completed, and never activates an
\* artifact whose metadata is missing.
C15_TornSaveNeverActivated ==
    (Loaded /\ decision.outcome = "ok") =>
        /\ The(active).version \in DOMAIN din.saved
        /\ The(active).feature_names # NoFeatures

\* C16: a load_model call that fails leaves the active artifact as it was,
\* and fails with FileNotFoundError when there is no version to load or the
\* version asked for is absent.
C16_FailedLoadKeepsActive ==
    Loaded =>
        /\ decision.outcome # "ok" => active = decision.before
        /\ (IsNone(decision.version) /\ list_versions(binaries) = <<>>) =>
               decision.outcome = "FileNotFoundError"
        /\ (~IsNone(decision.version) /\ The(decision.version) \notin DOMAIN binaries) =>
               decision.outcome = "FileNotFoundError"

\* C16 witness: a load_model call failed on an unreadable sidecar while an
\* artifact was active, which stayed active.
C16_Witness ==
    /\ Loaded
    /\ decision.outcome = "JSONDecodeError"
    /\ ~IsNone(decision.before)
    /\ active = decision.before

\* C18: load_model of a saved version returns the feature names, metrics
\* and training-sample count that were passed to save_model, whatever the
\* extra metadata.
C18_RoundTrip ==
    (Loaded /\ decision.outcome = "ok" /\ The(active).version \in DOMAIN din.saved) =>
        LET args == din.saved[The(active).version]
        IN  /\ The(active).feature_names = args.feature_names
            /\ The(active).metrics = args.metrics
            /\ The(active).training_samples = args.training_samples

\* C19: predict reports as optimal_threshold, and computes the confidence
\* against, the threshold stored with the loaded artifact, and 0.5 only
\* when none was stored.
C19_StoredThresholdUsed ==
    Predicted =>
        LET stored == IF ~IsNone(din.sidecar) /\ "optimal_threshold" \in DOMAIN The(din.sidecar)
                      THEN The(din.sidecar).optimal_threshold
                      ELSE DefaultThreshold
        IN  /\ decision.result.optimal_threshold = stored
            /\ decision.result.confidence =
                   RoundMicro(calculate_confidence(decision.probability, stored))

(***************************************************************************)
(* _calculate_confidence on its own.                                       *)
(***************************************************************************)
\* Thresholds strictly between 0 and 1.
ThresholdInputs == 1 .. (ProbSteps - 1)

InitF ==
    /\ QuietL
    /\ din \in [probability : Probabilities, threshold : ThresholdInputs]
    /\ dout = None

Score ==
    /\ dout = None
    /\ dout' = Some(calculate_confidence(din.probability, din.threshold))
    /\ UNCHANGED <<din, varsL>>

NextF == Score

SpecConfidence == InitF /\ [][NextF]_vars

Zero == [num |-> 0, den |-> 1]
One == [num |-> 1, den |-> 1]

MaxItems == 2
\* Names in the feature-name list of an artifact.
MaxNames == 2
\* Feature values are 0 .. MaxVal.
MaxVal == 1

FeatureVals == 0 .. MaxVal

DictKeys(d) == { d[i][1] : i \in DOMAIN d }
DictHas(d, k) == k \in DictKeys(d)
DictGet(d, k) == d[CHOOSE i \in DOMAIN d : d[i][1] = k][2]

\* d[k] = v: a key already there keeps its position.
DictSet(d, k, v) == IF DictHas(d, k) THEN [i \in DOMAIN d |-> IF d[i][1] = k THEN <<k, v>> ELSE d[i]] ELSE Append(d, <<k, v>>)

\* The dicts of at most n items with keys in K and values in V.
Dicts(K, V, n) == { d \in UNION { [1 .. m -> K \X V] : m \in 0 .. n } : \A i, j \in DOMAIN d : i # j => d[i][1] # d[j][1] }

\* The lists of at most n names of K.
Lists(K, n) == UNION { [1 .. m -> K] : m \in 0 .. n }

\* The dicts with the items of d in any order.
Reorderings(d) == { [i \in DOMAIN d |-> d[p[i]]] : p \in { q \in [DOMAIN d -> DOMAIN d] : \A i, j \in DOMAIN d : i # j => q[i] # q[j] } }

\* d without the keys outside K.
RECURSIVE Restricted(_, _)
Restricted(d, K) == IF d = <<>> THEN <<>> ELSE (IF d[1][1] \in K THEN <<d[1]>> ELSE <<>>) \o Restricted(Tail(d), K)

ListNames(names) == { names[i] : i \in DOMAIN names }

\* _align_features: one value per expected name, in the order of the
\* expected names; float() of a float is the float.  The two warnings change
\* nothing.
align_features_RawOrder(expected_names, raw_features) == [i \in DOMAIN raw_features |-> IF raw_features[i][1] \in ListNames(expected_names) THEN raw_features[i][2] ELSE 0]
align_features(expected_names, raw_features) == [i \in DOMAIN expected_names |-> IF DictHas(raw_features, expected_names[i]) THEN DictGet(raw_features, expected_names[i]) ELSE 0]

(***************************************************************************)
(* _align_features on its own.                                             *)
(***************************************************************************)
\* Names a model was trained on, and one name no model knows.
ModelNames == {"order_amount", "is_cod"}
UnexpectedName == "unexpected"

InitA ==
    /\ QuietL
    /\ din \in [expected_names : Lists(ModelNames, MaxNames),
                 raw_features : Dicts(ModelNames \cup {UnexpectedName}, FeatureVals, MaxItems)]
    /\ dout = None

Align ==
    /\ dout = None
    /\ dout' = Some(align_features(din.expected_names, din.raw_features))
    /\ UNCHANGED <<din, varsL>>

NextA == Align

SpecAlign == InitA /\ [][NextA]_vars

\* C21: _align_features returns one value per expected name, raw[name] when
\* the name is a key of the raw map and 0.0 otherwise, whatever the order of
\* the keys of the raw map and whatever keys it has besides the expected
\* ones.
C21_AlignedToExpectedNames ==
    Decided =>
        LET names == din.expected_names
            raw == din.raw_features
        IN  /\ Len(decision) = Len(names)
            /\ \A i \in 1 .. Len(names) :
                   decision[i] = IF DictHas(raw, names[i]) THEN DictGet(raw, names[i]) ELSE 0
            /\ \A r \in Reorderings(raw) : align_features(names, r) = decision
            /\ align_features(names, Restricted(raw, ListNames(names))) = decision

\* C21 witness: two expected names, one of them missing from a raw map that
\* holds the other one after an unexpected key.
C21_Witness ==
    /\ Decided
    /\ din.expected_names = <<"order_amount", "is_cod">>
    /\ Len(din.raw_features) = 2
    /\ din.raw_features[1][1] = UnexpectedName
    /\ din.raw_features[2] = <<"is_cod", 1>>
    /\ decision = <<0, 1>>

(***************************************************************************)
(* map_backend_features on its own.  The tables are cut down to three of   *)
(* the 48 canonical names: one with two producer aliases and no default    *)
(* entry, one with one alias and a default entry, one required name with   *)
(* neither.                                                                *)
(***************************************************************************)
\* sorted([...]): the canonical names in alphabetical order.
FEATURE_NAMES == <<"city_order_volume", "customer_order_count", "order_amount">>

\* Of the three required names, the one kept.
REQUIRED_FEATURES == <<"order_amount">>

BACKEND_TO_ML_MAP == << <<"phone_order_count", "customer_order_count">>, <<"previous_order_count", "customer_order_count">>, <<"address_order_count", "city_order_volume">> >>

FEATURE_DEFAULTS == << <<"city_order_volume", 400>> >>

\* BACKEND_TO_ML_MAP.get(backend_name, backend_name)
MlName(backend_name) == IF DictHas(BACKEND_TO_ML_MAP, backend_name) THEN DictGet(BACKEND_TO_ML_MAP, backend_name) ELSE backend_name

\* The first loop: every item of the producer map, in the order of the map,
\* is stored under its canonical name.
RECURSIVE RenameInto(_, _)
RenameInto(items, ml_features) == IF items = <<>> THEN ml_features ELSE RenameInto(Tail(items), DictSet(ml_features, MlName(items[1][1]), items[1][2]))

\* The second loop: FEATURE_DEFAULTS.get(feat, 0.0) for every canonical name
\* not stored yet.
RECURSIVE FillDefaults(_, _)
FillDefaults(names, ml_features) == IF names = <<>> THEN ml_features ELSE FillDefaults(Tail(names), IF DictHas(ml_features, names[1]) THEN ml_features ELSE DictSet(ml_features, names[1], IF DictHas(FEATURE_DEFAULTS, names[1]) THEN DictGet(FEATURE_DEFAULTS, names[1]) ELSE 0))

map_backend_features(backend_features) == FillDefaults(FEATURE_NAMES, RenameInto(backend_features, <<>>))

\* The items of a dict: two dicts are equal when their items are.
DictItems(d) == { d[i] : i \in DOMAIN d }

\* The names a producer may send: the aliases and the canonical names.
BackendNames == DictKeys(BACKEND_TO_ML_MAP) \cup ListNames(FEATURE_NAMES)

InitM ==
    /\ QuietL
    /\ din \in [backend_features : Dicts(BackendNames, FeatureVals, MaxItems)]
    /\ dout = None

Map ==
    /\ dout = None
    /\ dout' = Some(map_backend_features(din.backend_features))
    /\ UNCHANGED <<din, varsL>>

NextM == Map

SpecMap == InitM /\ [][NextM]_vars

\* The values the producer map supplies for a canonical name, directly or
\* through an alias.
Supplied(backend_features, feat) == { backend_features[i][2] : i \in { j \in DOMAIN backend_features : MlName(backend_features[j][1]) = feat } }

\* C22: the result of map_backend_features holds every canonical name; a
\* name supplied directly or through an alias has a supplied value, and
\* every other canonical name has its entry of the default table.
C22_EveryCanonicalNameFromTable ==
    Decided =>
        \A feat \in ListNames(FEATURE_NAMES) :
            /\ DictHas(decision, feat)
            /\ IF Supplied(din.backend_features, feat) # {}
               THEN DictGet(decision, feat) \in Supplied(din.backend_features, feat)
               ELSE /\ DictHas(FEATURE_DEFAULTS, feat)
                    /\ DictGet(decision, feat) = DictGet(FEATURE_DEFAULTS, feat)

\* C28: the result of map_backend_features is the same for every order of
\* the keys of the producer map, two names of one canonical name with
\* different values included.
C28_KeyOrderIrrelevant ==
    Decided =>
        \A r \in Reorderings(din.backend_features) :
            DictItems(map_backend_features(r)) = DictItems(decision)

(***************************************************************************)
(* One request to POST /predict: the feature map of the body, and what the *)
(* two scoring calls of the active model do.  The artifact was trained on  *)
(* the canonical names.                                                    *)
(***************************************************************************)
\* Outcomes of model.predict_proba(X) and of model.predict(X).
ProbaOutcomes == {"ok", "AttributeError", "ValueError"}
FallbackOutcomes == {"ok", "ValueError"}

\* predict, step 2: predict_proba, and model.predict when predict_proba
\* raised AttributeError.  calls counts the scoring calls made.
Inference(proba, fallback) == IF proba = "ok" THEN [raised |-> None, calls |-> 1] ELSE IF proba = "AttributeError" THEN [raised |-> IF fallback = "ok" THEN None ELSE Some(fallback), calls |-> 2] ELSE [raised |-> Some(proba), calls |-> 1]

\* predict_endpoint: 503 without a model; 500 "Prediction error" when
\* predict raises; else the result, computed from the aligned values.
predict_endpoint(artifact, expected_names, features, proba, fallback) == IF IsNone(artifact) THEN [status |-> 503, values |-> None, calls |-> 0] ELSE IF IsNone(Inference(proba, fallback).raised) THEN [status |-> 200, values |-> Some(align_features(expected_names, features)), calls |-> Inference(proba, fallback).calls] ELSE [status |-> 500, values |-> None, calls |-> Inference(proba, fallback).calls]

InitR ==
    /\ QuietL
    /\ din \in [features : Dicts(ListNames(FEATURE_NAMES), FeatureVals, MaxItems),
                 proba : ProbaOutcomes, fallback : FallbackOutcomes]
    /\ dout = None

Request ==
    /\ dout = None
    /\ dout' = Some(predict_endpoint(ServedArtifact, FEATURE_NAMES, din.features,
                                     din.proba, din.fallback))
    /\ UNCHANGED <<din, varsL>>

NextR == Request

SpecRequest == InitR /\ [][NextR]_vars

\* A required feature is not in the feature map of the request.
LacksRequired(features) == \E feat \in ListNames(REQUIRED_FEATURES) : ~DictHas(features, feat)

\* C23: a request whose feature map lacks a required feature is refused as
\* invalid input (a 4xx status) and gets no prediction result; a request
\* that lacks optional features only is answered when the model scores it.
C23_RequiredFeaturesEnforced ==
    Decided =>
        /\ LacksRequired(din.features) =>
               (decision.status \in {400, 422} /\ IsNone(decision.values))
        /\ (~LacksRequired(din.features) /\ din.proba = "ok") => decision.status = 200

\* C24: a scoring call that fails makes the request fail with the inference
\* error, and no request invokes the model a second time.
C24_ScoringFailureFatal ==
    Decided =>
        /\ din.proba # "ok" => decision.status = 500
        /\ decision.calls <= 1

(***************************************************************************)
(* DriftDetector (pipeline/drift_detector.py).  A data frame is its row    *)
(* count and what the statistics over it come to: the number of features   *)
(* the KS test or the mean shift flags, the precision and the recall in    *)
(* percent.                                                                *)
(***************************************************************************)
\* The most features a live sample shows drifted.
MaxDrifted == 3

min_samples == 100
precision_floor == 60
recall_floor == 50
\* len(drifted) >= 3
retrain_drifted_features == 3

NoDriftReason == "No drift detected"

\* A fresh DriftReport; drifted_features is the length of the list, and None
\* stands for the empty performance_metrics dict.
DriftReport == [feature_drift_detected |-> FALSE, performance_drift_detected |-> FALSE, drifted_features |-> 0, performance_metrics |-> None, should_retrain |-> FALSE, reasons |-> <<>>]

\* check_feature_drift: the three early returns, then the drifted features.
check_feature_drift(current_data, baseline_found, scipy) == IF ~baseline_found THEN [DriftReport EXCEPT !.reasons = <<"No baseline found">>] ELSE IF current_data.rows < min_samples THEN [DriftReport EXCEPT !.reasons = <<"Not enough current data">>] ELSE IF ~scipy THEN [DriftReport EXCEPT !.reasons = <<"scipy not installed">>] ELSE [DriftReport EXCEPT !.drifted_features = current_data.drifted, !.feature_drift_detected = current_data.drifted > 0, !.should_retrain = current_data.drifted >= retrain_drifted_features, !.reasons = IF current_data.drifted >= retrain_drifted_features THEN <<"features have drifted significantly">> ELSE <<>>]

\* check_performance_drift: the two early returns, then the two floors.
check_performance_drift(predictions_df) == IF ~predictions_df.columns THEN [DriftReport EXCEPT !.reasons = <<"Missing columns">>] ELSE IF predictions_df.rows < min_samples THEN [DriftReport EXCEPT !.reasons = <<"Not enough predictions">>] ELSE [DriftReport EXCEPT !.performance_metrics = Some([precision |-> predictions_df.precision, recall |-> predictions_df.recall]), !.performance_drift_detected = predictions_df.precision < precision_floor \/ predictions_df.recall < recall_floor, !.should_retrain = predictions_df.precision < precision_floor \/ predictions_df.recall < recall_floor, !.reasons = (IF predictions_df.precision < precision_floor THEN <<"Precision below floor">> ELSE <<>>) \o (IF predictions_df.recall < recall_floor THEN <<"Recall below floor">> ELSE <<>>)]

\* Truthiness of baseline_version: Optional[str].
BaselineGiven(baseline_version) == baseline_version \notin {"none", "empty"}

\* load_baseline(baseline_version) finds the file of that version.
BaselineFound(baseline_version) == baseline_version = "found"

\* A report with a sub-report merged in: the given flags and details, the
\* reasons extended, should_retrain raised.
MergedFeature(combined, feat_report) == [combined EXCEPT !.feature_drift_detected = feat_report.feature_drift_detected, !.drifted_features = feat_report.drifted_features, !.reasons = @ \o feat_report.reasons, !.should_retrain = @ \/ feat_report.should_retrain]
MergedPerformance_Overwrite(combined, perf_report) == [combined EXCEPT !.performance_drift_detected = perf_report.performance_drift_detected, !.performance_metrics = perf_report.performance_metrics, !.reasons = @ \o perf_report.reasons, !.should_retrain = perf_report.should_retrain]
MergedPerformance(combined, perf_report) == [combined EXCEPT !.performance_drift_detected = perf_report.performance_drift_detected, !.performance_metrics = perf_report.performance_metrics, !.reasons = @ \o perf_report.reasons, !.should_retrain = @ \/ perf_report.should_retrain]

\* if not combined.reasons: the "no drift" entry.
WithDefaultReason(combined) == IF combined.reasons = <<>> THEN [combined EXCEPT !.reasons = <<NoDriftReason>>] ELSE combined

\* DriftDetector.should_retrain: the feature check when a live sample and a
\* baseline version are given, the performance check when predictions are.
detector_should_retrain(current_data, predictions_df, baseline_version, scipy) ==
    LET c1 == IF ~IsNone(current_data) /\ BaselineGiven(baseline_version)
              THEN MergedFeature(DriftReport,
                                 check_feature_drift(The(current_data),
                                                     BaselineFound(baseline_version), scipy))
              ELSE DriftReport
        c2 == IF ~IsNone(predictions_df)
              THEN MergedPerformance(c1, check_performance_drift(The(predictions_df)))
              ELSE c1
    IN  WithDefaultReason(c2)

(***************************************************************************)
(* DriftDetector.should_retrain on its own.                                *)
(***************************************************************************)
CurrentDataInputs == {None} \cup { Some([rows |-> r, drifted |-> n]) : r \in {min_samples - 1, min_samples}, n \in 0 .. MaxDrifted }

\* None, "", a version with a baseline file, a version without one.
BaselineInputs == {"none", "empty", "found", "missing"}

PredictionInputs == {None} \cup { Some([columns |-> c, rows |-> r, precision |-> p, recall |-> q]) : c \in BOOLEAN, r \in {min_samples - 1, min_samples}, p \in {precision_floor - 1, precision_floor}, q \in {recall_floor - 1, recall_floor} }

InitDrift ==
    /\ QuietL
    /\ din \in [current_data : CurrentDataInputs, predictions_df : PredictionInputs,
                 baseline_version : BaselineInputs, scipy : BOOLEAN]
    /\ dout = None

Detect ==
    /\ dout = None
    /\ dout' = Some(detector_should_retrain(din.current_data, din.predictions_df,
                                            din.baseline_version, din.scipy))
    /\ UNCHANGED <<din, varsL>>

NextDrift == Detect

SpecDrift == InitDrift /\ [][NextDrift]_vars

\* The sub-checks that the inputs call for, and what they report.
FeatureCheckDue == ~IsNone(din.current_data) /\ din.baseline_version \notin {"none", "empty"}
PerformanceCheckDue == ~IsNone(din.predictions_df)
FeatureReport == check_feature_drift(The(din.current_data), BaselineFound(din.baseline_version), din.scipy)
PerformanceReport == check_performance_drift(The(din.predictions_df))

\* C25: the combined report carries the feature check's findings exactly
\* when a live sample and a (non-empty) baseline version are given, the
\* performance check's exactly when predictions are given; its
\* should_retrain is true exactly when a sub-check that ran says so; and
\* when neither ran its reasons are the one "no drift detected" entry.
C25_UnionOfExecutedChecks ==
    Decided =>
        /\ decision.should_retrain =
               ((FeatureCheckDue /\ FeatureReport.should_retrain)
                \/ (PerformanceCheckDue /\ PerformanceReport.should_retrain))
        /\ IF FeatureCheckDue
           THEN /\ decision.feature_drift_detected = FeatureReport.feature_drift_detected
                /\ decision.drifted_features = FeatureReport.drifted_features
           ELSE /\ ~decision.feature_drift_detected
                /\ decision.drifted_features = 0
        /\ IF PerformanceCheckDue
           THEN /\ decision.performance_drift_detected = PerformanceReport.performance_drift_detected
                /\ decision.performance_metrics = PerformanceReport.performance_metrics
           ELSE /\ ~decision.performance_drift_detected
                /\ IsNone(decision.performance_metrics)
        /\ (~FeatureCheckDue /\ ~PerformanceCheckDue) => decision.reasons = <<NoDriftReason>>

\* C25 witness: both checks ran, the feature check alone asked for a
\* retrain, and the combined report asks for it.
C25_Witness ==
    /\ Decided
    /\ FeatureCheckDue /\ PerformanceCheckDue
    /\ FeatureReport.should_retrain
    /\ ~PerformanceReport.should_retrain
    /\ ~IsNone(decision.performance_metrics)
    /\ decision.should_retrain

\* C29: a report whose reasons hold the "no drift detected" entry flags
\* neither feature drift nor performance drift.
C29_NoDriftReasonMeansNoDrift ==
    Decided =>
        ((\E i \in DOMAIN decision.reasons : decision.reasons[i] = NoDriftReason) =>
            (~decision.feature_drift_detected /\ ~decision.performance_drift_detected))

(***************************************************************************)
(* scripts/retrain_from_outcomes.py: run_retrain jobs of one tenant, one   *)
(* after the other, on the champion pair models/latest.joblib and          *)
(* models/latest_meta.json and on the tenant's training events.  F1 scores *)
(* are counted in hundredths.                                              *)
(***************************************************************************)
\* The greatest F1 score.
MaxF1 == 2
\* The jobs run.
MaxJobs == 2
\* The training events of the tenant.
MaxEvents == 2

PROMOTION_MIN_F1_DELTA == -1

F1Vals == 0 .. MaxF1
Events == 1 .. MaxEvents

\* latest_meta.json as save_model writes it: the version and the metrics.
ChampionMeta(version, f1_score) == [version |-> version, f1_score |-> f1_score]

\* current_meta.get('f1_score', 0) on get_current_model_metrics(): {} when
\* the file does not exist.
CurrentF1(latest_meta) == IF IsNone(latest_meta) THEN 0 ELSE The(latest_meta).f1_score

\* Where a job stops: nowhere, or at the exception raised by training and
\* evaluation, by joblib.dump, by the write of latest_meta.json, by
\* mark_events_used, or by the closing update_retrain_job.
FailPoints == <<"train", "dump_binary", "dump_meta", "mark_events", "update_job", "none">>
FailIndex(fails_at) == CHOOSE k \in DOMAIN FailPoints : FailPoints[k] = fails_at

\* The champion pair and the used marks as a job leaves them.  A write that
\* raises leaves its file cut short when it had been opened (written), and
\* untouched otherwise.
AfterJob(world, id, test_f1, promoted, k, written) == [latest_bin |-> IF promoted /\ k >= 2 THEN (IF k = 2 THEN (IF written THEN CorruptBinary ELSE world.latest_bin) ELSE id) ELSE world.latest_bin, latest_meta |-> IF promoted /\ k >= 3 THEN (IF k = 3 THEN (IF written THEN Some(CorruptSidecar) ELSE world.latest_meta) ELSE Some(ChampionMeta(id, test_f1))) ELSE world.latest_meta, used |-> IF promoted /\ k >= 5 THEN Events ELSE world.used]

\* The status the retrain_jobs row ends with: 'completed'; 'failed' from the
\* except handler; 'running' when the handler's own update raises, which it
\* may after a failed statement on the same connection.
JobStatus(k, handler_ok) == IF k = 6 THEN "completed" ELSE IF k \in {4, 5} /\ ~handler_ok THEN "running" ELSE "failed"

World == [latest_bin |-> din.latest_bin, latest_meta |-> din.latest_meta, used |-> din.used]

InitO ==
    /\ QuietL
    /\ din \in [latest_bin : {0},
                 latest_meta : {None} \cup { Some(ChampionMeta(0, f)) : f \in F1Vals },
                 used : SUBSET Events,
                 jobs : {0}]
    /\ dout = None

\* run_retrain from create_retrain_job on (the sanity checks passed; a run
\* that returns before creates no job and changes nothing).  Reading a
\* latest_meta.json that is cut short raises before the job is created.
RunRetrain ==
    /\ din.jobs < MaxJobs
    /\ din.latest_meta # Some(CorruptSidecar)
    /\ \E test_f1 \in F1Vals, k \in DOMAIN FailPoints, written \in BOOLEAN, handler_ok \in BOOLEAN :
          LET promoted == test_f1 >= CurrentF1(din.latest_meta) + PROMOTION_MIN_F1_DELTA
              after == AfterJob(World, din.jobs + 1, test_f1, promoted, k, written)
          IN  /\ promoted \/ k \in {FailIndex("train"), FailIndex("update_job"), FailIndex("none")}
              /\ din' = [latest_bin |-> after.latest_bin, latest_meta |-> after.latest_meta,
                         used |-> after.used, jobs |-> din.jobs + 1]
              /\ dout' = Some([status |-> JobStatus(k, handler_ok), promoted |-> promoted,
                               before |-> World, after |-> after])
    /\ UNCHANGED varsL

NextO == RunRetrain

SpecOutcomes == InitO /\ [][NextO]_vars

\* C30: a job that ends 'failed' leaves the champion pair and the used
\* marks as they were before it; they change only in a job that ends
\* 'completed' with promoted = true.
C30_FailedJobChangesNothing ==
    Decided =>
        /\ decision.status = "failed" => decision.after = decision.before
        /\ decision.after # decision.before =>
               (decision.status = "completed" /\ decision.promoted)

(***************************************************************************)
(* Claims about the lifecycle.                                             *)
(***************************************************************************)
Served == ~IsNone(resp)
response == The(resp)

\* C1: in every finished run of the retrain path (check_retrain with
\* trigger_retrain, run_drift_check --retrain) in which compare_models
\* declared the current version the winner, the artifact active after the
\* run is the one that was active before it.
C1_LoserNotActivated ==
    \A p \in Procs :
        (hist.last[p].done /\ hist.last[p].kept) => hist.last[p].champion_active

\* C2: every prediction is computed from one artifact: the feature names,
\* the scoring model and the reported model_version are those of the artifact
\* that was active when the request was served, and they belong together as
\* stored (the feature names are the ones saved with that model).
C2_OneArtifactPerPrediction ==
    Served =>
        /\ ~IsNone(response.active_then)
        /\ response.result.feature_names = The(response.active_then).feature_names
        /\ response.result.model = The(response.active_then).model
        /\ response.result.model_version = The(response.active_then).version
        /\ response.result.feature_names = response.result.model

\* C2 witness: a request that arrived while the service was training was
\* served, explained, after the active artifact had been swapped under it.
C2_Witness ==
    /\ Served
    /\ response.during /\ response.swapped
    /\ ~IsNone(response.result.explainer)
    /\ response.result.model_version # 0

\* C3: at most one retrain-and-promote operation is in flight at any time.
C3_SingleRetrainInFlight == InFlight <= 1

\* C4: no scheduler state update is lost: two checks never both go on to
\* retrain from the same loaded state, and no save_state is made by a check
\* whose loaded state another save has replaced since.
C4_NoLostUpdate ==
    /\ ~hist.lost
    /\ ~(srv.pc = "retrain" /\ scr.pc = "retrain" /\ ~srv.stale /\ ~scr.stale)

\* C5: the explainer that computed the factors of a prediction was built
\* from the model that scored it.
C5_ExplainerOfServedModel ==
    (Served /\ ~IsNone(response.result.explainer)) =>
        The(response.result.explainer) = response.result.model

\* C6: a predict request that arrived while a training run of the service
\* is executing can be answered while that run is still executing.
C6_PredictNotBlockedByTraining ==
    (~IsNone(req) /\ The(req).during /\ InTraining("srv")) => ENABLED Predict

\* A retrain run of some process ends in this step, its challenger having
\* lost against the version that was the latest before the run.
RetrainRejected ==
    /\ trained' = trained + 1
    /\ \/ srv.pc = "retrain" /\ srv'.pc = "idle"
       \/ scr.pc = "retrain" /\ scr'.pc = "off"
    /\ ~Promoted(get_latest_version(binaries), now, metas')

\* C26: after a retrain whose challenger lost the comparison, load_model()
\* without a version still activates the champion that won: the version that
\* was the latest before the run.
C26_VersionlessLoadKeepsChampion ==
    [][RetrainRejected =>
          load_model(None, binaries', metas', None)
            = load_model(get_latest_version(binaries), binaries', metas', None)]_vars

\* The decision of a check_retrain request made in this state.
CheckDecision == should_retrain(FALSE, NoneList, StateNewOrders(schedState), The(active).trained_at, now)

\* C27: once check_retrain has retrained, the persisted state has
\* new_orders = 0 and a check_retrain with no new orders counted since
\* decides should_retrain = false; at the end of the retrain the state's
\* last_version is the version of the active artifact.
C27_NoRetriggerAfterRetrain ==
    /\ [](hist.last["srv"].done =>
            /\ ~IsNone(schedState)
            /\ The(schedState).new_orders = 0
            /\ ~IsNone(active) => ~CheckDecision.should_retrain)
    /\ [][(srv.pc = "retrain" /\ trained' = trained + 1 /\ srv'.pc = "idle") =>
             (~IsNone(active') /\ The(schedState').last_version = The(active').version)]_vars

\* C27 witness: after a retrain of the service the retrain interval has
\* elapsed on the active artifact, and the decision names the shortfall of
\* new orders without asking for a retrain.
C27_Witness ==
    /\ hist.last["srv"].done
    /\ ~IsNone(active)
    /\ DaysBetween(now, The(active).trained_at.t) >= retrain_interval_days
    /\ ~CheckDecision.should_retrain
    /\ CheckDecision.reasons # <<NoTriggerReason>>

\* C17: an artifact is never modified after it was created: every binary
\* and every sidecar of the versions directory stays what it was, so every
\* run saves under a version string that no earlier run used.
C17_ArtifactsNeverOverwritten ==
    [][\A v \in DOMAIN binaries :
          /\ v \in DOMAIN binaries' /\ binaries'[v] = binaries[v]
          /\ v \in DOMAIN metas => (v \in DOMAIN metas' /\ metas'[v] = metas[v])]_vars

====
